---------------------------- MODULE Spec2Model ----------------------------
(***************************************************************************)
(* bytebuffers: a growable byte buffer with read/write/allocation cursors  *)
(* and a borrow/return protocol (src/buffer.go).                           *)
(*                                                                         *)
(* The buffer struct is the record buf = [h, c, r, w, a, b].  The backing  *)
(* slice b is a sequence (Go index i is TLA+ index i+1); a nil slice is    *)
(* the empty sequence, and len(b) = cap(b) because every backing slice is  *)
(* built by make([]byte, n).  Each method is an operator from a buffer     *)
(* record (and arguments) to a result record [s, p, n, err, ok, path,      *)
(* panic]: the buffer afterwards, the returned bytes, the returned count,  *)
(* the returned error, the returned bool, the branch grow took, and        *)
(* whether the call panicked (slice bounds out of range, explicit panic).  *)
(*                                                                         *)
(* The pool (src/pool.go) is the record pool = [calls, calibrating,        *)
(* dynamicHint, defaultHint, maxSize] and the bag free (sync.Pool, which   *)
(* keeps no order).  Threads run Acquire, Release and calibrate one atomic *)
(* operation at a time.  sort.Sort is not stable: buckets with equal       *)
(* counts may come out in any order, and calibrate's stores range over     *)
(* every such order.                                                       *)
(***************************************************************************)
EXTENDS Integers, Sequences, FiniteSets, Bags, TLC

\* ------------------------------------------------------------------ bounds
MaxLen  == 2      \* longest byte slice handed to an operation
MaxCap  == 4      \* calls that would grow the capacity above this are not made
MaxHint == 2      \* capacity hints are 1..MaxHint
MaxWritten == 4   \* bytes written in all, where the history of a run is kept

\* largest int of a 32-bit build: int(^uint(0) >> 1)
maxInt == 2147483647

minBitSize == 6
minHint == 2 ^ minBitSize

\* bytes are abstracted to two values: 0, which make() fills a new store with, and 1
Byte  == {0, 1}
Hints == 1..MaxHint
Sizes == (0 - 1)..(MaxLen + 1)

RECURSIVE SeqsUpTo(_)
SeqsUpTo(k) ==
  IF k = 0 THEN {<<>>}
  ELSE LET shorter == SeqsUpTo(k - 1)
       IN  shorter \cup {Append(q, x) : q \in {t \in shorter : Len(t) = k - 1}, x \in Byte}

Slices == SeqsUpTo(MaxLen)

Min(x, y) == IF x < y THEN x ELSE y

\* ------------------------------------------------------------ Go slices
\* make([]byte, k): k zero bytes
Zeros(k) == [i \in 1..k |-> 0]

\* b[lo:hi] is legal iff 0 <= lo <= hi <= cap(b)
InRange(b, lo, hi) == 0 <= lo /\ lo <= hi /\ hi <= Len(b)

\* b[lo:hi]
Slice(b, lo, hi) == SubSeq(b, lo + 1, hi)

\* copy(b[off:], src): b afterwards; min(len(src), len(b)-off) bytes are copied
CopyInto(b, off, src) ==
  LET m == Min(Len(src), Len(b) - off)
  IN  SubSeq(b, 1, off) \o SubSeq(src, 1, m) \o SubSeq(b, off + m + 1, Len(b))

\* bytes.IndexByte(q, delim): Go index of the first delim, or -1
IndexByte(q, delim) ==
  IF \E i \in 1..Len(q) : q[i] = delim
  THEN (CHOOSE i \in 1..Len(q) : q[i] = delim /\ \A j \in 1..(i - 1) : q[j] # delim) - 1
  ELSE 0 - 1

\* ------------------------------------------------------------ results
Out(s, p, n, err) ==
  [s |-> s, p |-> p, n |-> n, err |-> err, ok |-> TRUE, path |-> "none", panic |-> FALSE]

Panic(s) ==
  [s |-> s, p |-> <<>>, n |-> 0, err |-> "panic", ok |-> FALSE, path |-> "none", panic |-> TRUE]

\* ------------------------------------------------------------ buffer
\* adjustBufferSize rounding down instead of up
adjustBufferSizeFloor(size, base) == (size \div base) * base

\* math.Ceil(float64(size)/float64(base)) * float64(base); exact below 2^53
adjustBufferSize(size, base) == ((size + base - 1) \div base) * base

NewBufferWithCapacityHint(hint) ==
  [h |-> IF hint <= 0 THEN minHint ELSE hint, c |-> 0, r |-> 0, w |-> 0, a |-> 0, b |-> <<>>]

NewBuffer == NewBufferWithCapacityHint(minHint)

buffer_Len(s) == s.w - s.r

Capacity(s) == s.c

CapacityHint(s) == s.h

Borrowing(s) == s.a # s.w

\* b[r:w], the unread bytes
Unread(s) == Slice(s.b, s.r, s.w)

\* shrink that does not look at the allocation cursor
shrinkBorrowed(s) ==
  IF s.r = s.w THEN [s EXCEPT !.r = 0, !.w = 0, !.a = 0] ELSE s

\* the cursors collapse to 0 once the buffer is drained and nothing is borrowed
shrink(s) ==
  IF s.r = s.w /\ s.a = s.w THEN [s EXCEPT !.r = 0, !.w = 0, !.a = 0] ELSE s

\* grow, first call: the backing store is allocated
growInit(s, n) ==
  LET adjustedSize == adjustBufferSize(n, s.h)
  IN  [Out([s EXCEPT !.r = 0, !.w = 0, !.a = 0,
                     !.c = s.c + adjustedSize, !.b = Zeros(adjustedSize)],
           <<>>, 0, "nil") EXCEPT !.path = "init"]

\* growShift with the copy left out: only the cursors move
growShiftNoCopy(t) ==
  [Out([t EXCEPT !.r = 0, !.w = buffer_Len(t), !.a = buffer_Len(t)], <<>>, 0, "nil")
     EXCEPT !.path = "shift"]

\* grow, left shift: the unread bytes move to offset 0
growShift(t) ==
  IF ~InRange(t.b, t.r, t.w) THEN Panic(t)
  ELSE [Out([t EXCEPT !.b = CopyInto(t.b, 0, Slice(t.b, t.r, t.w)),
                      !.r = 0, !.w = buffer_Len(t), !.a = buffer_Len(t)],
            <<>>, 0, "nil") EXCEPT !.path = "shift"]

\* grow, reallocation for a deficit of m bytes
growAlloc(t, m) ==
  IF t.c > maxInt - t.c - m THEN Out(t, <<>>, 0, "ErrTooLarge")
  ELSE LET bLen == buffer_Len(t)
           bCap == Capacity(t)
           adjustedSize == adjustBufferSize(m, t.h)
           nb == Zeros(adjustedSize + bCap)
       IN  IF bLen > 0 /\ ~InRange(t.b, t.r, t.w) THEN Panic(t)
           ELSE [Out([t EXCEPT !.b = IF bLen > 0
                                     THEN CopyInto(nb, 0, Slice(t.b, t.r, t.w))
                                     ELSE nb,
                               !.r = 0, !.w = bLen, !.a = bLen,
                               !.c = t.c + adjustedSize],
                     <<>>, 0, "nil") EXCEPT !.path = "alloc"]

\* grow without the left shift: a request that does not fit after the write
\* cursor reallocates
growReallocates(s, n) ==
  IF n < 1 THEN Out(s, <<>>, 0, "nil")
  ELSE IF Borrowing(s) THEN Out(s, <<>>, 0, "ErrWriteBeforeAllocated")
  ELSE IF s.b = <<>> THEN growInit(s, n)
  ELSE LET t == shrink(s)
           remains == Capacity(t) - buffer_Len(t)
       IN  IF n <= remains /\ t.r = 0
           THEN [Out(t, <<>>, 0, "nil") EXCEPT !.path = "fits"]
           ELSE growAlloc(t, n)

grow(s, n) ==
  IF n < 1 THEN Out(s, <<>>, 0, "nil")
  ELSE IF Borrowing(s) THEN Out(s, <<>>, 0, "ErrWriteBeforeAllocated")
  ELSE IF s.b = <<>> THEN growInit(s, n)
  ELSE LET t == shrink(s)
           bLen == buffer_Len(t)
           bCap == Capacity(t)
           remains == bCap - bLen
       IN  IF n <= remains
           THEN IF t.r = 0
                THEN [Out(t, <<>>, 0, "nil") EXCEPT !.path = "fits"]
                ELSE growShift(t)
           ELSE growAlloc(t, n - remains)

\* ------------------------------------------------------------ read side
Peek(s, n) ==
  LET bLen == buffer_Len(s)
  IN  IF n < 1 \/ bLen = 0 THEN Out(s, <<>>, 0, "nil")
      ELSE IF bLen > n
      THEN IF InRange(s.b, s.r, s.r + n)
           THEN Out(s, Slice(s.b, s.r, s.r + n), 0, "nil") ELSE Panic(s)
      ELSE IF InRange(s.b, s.r, s.w)
           THEN Out(s, Slice(s.b, s.r, s.w), 0, "nil") ELSE Panic(s)

CloneBytes(s) ==
  LET pk == Peek(s, buffer_Len(s))
  IN  IF pk.panic THEN pk ELSE Out(s, pk.p, 0, "nil")

\* Next that refuses a request for more bytes than are unread
NextStrict(s, n0) ==
  IF n0 < 1 THEN Out(s, <<>>, 0, "nil")
  ELSE LET bLen == buffer_Len(s)
       IN  IF bLen = 0 \/ n0 > bLen THEN Out(s, <<>>, 0, "EOF")
           ELSE IF ~InRange(s.b, s.r, s.w) THEN Panic(s)
           ELSE Out(shrink([s EXCEPT !.r = s.r + n0]),
                    CopyInto(Zeros(n0), 0, Slice(s.b, s.r, s.w)), 0, "nil")

buffer_Next(s, n0) ==
  IF n0 < 1 THEN Out(s, <<>>, 0, "nil")
  ELSE LET bLen == buffer_Len(s)
           n == IF n0 > bLen THEN bLen ELSE n0
       IN  IF bLen = 0 THEN Out(s, <<>>, 0, "EOF")
           ELSE IF n < 0 \/ ~InRange(s.b, s.r, s.w) THEN Panic(s)
           ELSE Out(shrink([s EXCEPT !.r = s.r + n]),
                    CopyInto(Zeros(n), 0, Slice(s.b, s.r, s.w)), 0, "nil")

\* Read(p) with len(p) = k: the bytes copied into p are the result p
Read(s, k) ==
  IF k = 0 THEN Out(s, <<>>, 0, "nil")
  ELSE LET bLen == buffer_Len(s)
       IN  IF bLen = 0 THEN Out(s, <<>>, 0, "EOF")
           ELSE IF ~InRange(s.b, s.r, s.w) THEN Panic(s)
           ELSE LET n == Min(k, s.w - s.r)
                IN  Out(shrink([s EXCEPT !.r = s.r + n]),
                        SubSeq(Slice(s.b, s.r, s.w), 1, n), n, "nil")

ReadByte(s) ==
  LET bLen == buffer_Len(s)
  IN  IF bLen = 0 THEN Out(s, <<>>, 0, "EOF")
      ELSE IF ~(0 <= s.r /\ s.r < Len(s.b)) THEN Panic(s)
      ELSE Out(shrink([s EXCEPT !.r = s.r + 1]), <<s.b[s.r + 1]>>, 0, "nil")

\* ReadBytes with the line ending before the delimiter (end = r + i)
ReadBytesNoDelim(s, delim) ==
  LET i == IndexByte(Unread(s), delim)
      n == IF i = 0 - 1 THEN buffer_Len(s) ELSE i
  IN  IF buffer_Len(s) = 0 THEN Out(s, <<>>, 0, "EOF")
      ELSE Out(shrink([s EXCEPT !.r = s.r + n]), SubSeq(Unread(s), 1, n), 0, "nil")

ReadBytes(s, delim) ==
  LET bLen == buffer_Len(s)
  IN  IF bLen = 0 THEN Out(s, <<>>, 0, "EOF")
      ELSE IF ~InRange(s.b, s.r, s.w) THEN Panic(s)
      ELSE LET i == IndexByte(Slice(s.b, s.r, s.w), delim)
           IN  IF i = 0 - 1
               THEN LET line == CopyInto(Zeros(bLen), 0, Slice(s.b, s.r, s.w))
                        n == Min(bLen, s.w - s.r)
                    IN  Out(shrink([s EXCEPT !.r = s.r + n]), line, 0, "nil")
               ELSE LET end == s.r + i + 1
                        size == end - s.r
                        line == CopyInto(Zeros(size), 0, Slice(s.b, s.r, end))
                        n == Min(size, end - s.r)
                    IN  Out(shrink([s EXCEPT !.r = s.r + n]), line, 0, "nil")

Index(s, delim) ==
  LET bLen == buffer_Len(s)
  IN  IF bLen = 0 THEN Out(s, <<>>, 0, "nil")
      ELSE IF ~InRange(s.b, s.r, s.w) THEN Panic(s)
      ELSE Out(s, <<>>, IndexByte(Slice(s.b, s.r, s.w), delim), "nil")

\* Discard with n not clamped to Len()
DiscardUnclamped(s, n0) ==
  IF n0 < 1 \/ buffer_Len(s) = 0 THEN Out(s, <<>>, 0, "nil")
  ELSE Out(shrink([s EXCEPT !.r = s.r + n0]), <<>>, 0, "nil")

Discard(s, n0) ==
  IF n0 < 1 THEN Out(s, <<>>, 0, "nil")
  ELSE LET bLen == buffer_Len(s)
           n == IF n0 > bLen THEN bLen ELSE n0
       IN  IF bLen = 0 THEN Out(s, <<>>, 0, "nil")
           ELSE Out(shrink([s EXCEPT !.r = s.r + n]), <<>>, 0, "nil")

\* ------------------------------------------------------------ write side
\* the grow a write-side call makes when the space after w is short of need
growIfShort(s, short, need) ==
  IF short THEN grow(s, need) ELSE Out(s, <<>>, 0, "nil")

Write(s, p) ==
  IF Borrowing(s) THEN Out(s, <<>>, 0, "ErrWriteBeforeAllocated")
  ELSE LET pLen == Len(p)
       IN  IF pLen = 0 THEN Out(s, <<>>, 0, "nil")
           ELSE LET g == growIfShort(s, s.c - s.w < pLen, pLen)
                    t == g.s
                    n == Min(pLen, Len(t.b) - t.w)
                IN  IF g.panic \/ g.err # "nil" THEN g
                    ELSE IF ~InRange(t.b, t.w, Len(t.b)) THEN Panic(t)
                    ELSE [Out([t EXCEPT !.b = CopyInto(t.b, t.w, p),
                                        !.w = t.w + n, !.a = t.w + n],
                              <<>>, n, "nil") EXCEPT !.path = g.path]

\* a string is its bytes; "" is the empty sequence
WriteString(s, str) ==
  IF str = <<>> THEN Out(s, <<>>, 0, "nil") ELSE Write(s, str)

WriteByte(s, c) ==
  IF Borrowing(s) THEN Out(s, <<>>, 0, "ErrWriteBeforeAllocated")
  ELSE LET g == growIfShort(s, s.c - s.w < 1, 1)
           t == g.s
       IN  IF g.panic \/ g.err # "nil" THEN g
           ELSE IF ~(0 <= t.w /\ t.w < Len(t.b)) THEN Panic(t)
           ELSE [Out([t EXCEPT !.b = CopyInto(t.b, t.w, <<c>>),
                               !.w = t.w + 1, !.a = t.w + 1],
                     <<>>, 0, "nil") EXCEPT !.path = g.path]

\* Set with the rewind of the write cursor (buf.w = buf.r) left out
SetAppends(s, p) ==
  IF Borrowing(s) THEN Out(s, <<>>, 0, "ErrWriteBeforeAllocated")
  ELSE IF Len(p) = 0 THEN Out(s, <<>>, 0, "nil")
  ELSE LET g == growIfShort(s, s.c - s.w < Len(p), Len(p))
           t == g.s
           n == Min(Len(p), Len(t.b) - t.w)
       IN  IF g.panic \/ g.err # "nil" THEN g
           ELSE Out([t EXCEPT !.b = CopyInto(t.b, t.w, p), !.w = t.w + n, !.a = t.w + n],
                    <<>>, 0, "nil")

Set(s, p) ==
  IF Borrowing(s) THEN Out(s, <<>>, 0, "ErrWriteBeforeAllocated")
  ELSE LET pLen == Len(p)
       IN  IF pLen = 0
           THEN IF s.c = 0 THEN Out(s, <<>>, 0, "nil")
                ELSE Out([s EXCEPT !.w = s.r, !.a = s.r], <<>>, 0, "nil")
           ELSE LET g == growIfShort(s, s.c - s.w < pLen, pLen)
                    t == g.s
                    n == Min(pLen, Len(t.b) - t.r)
                IN  IF g.panic \/ g.err # "nil" THEN g
                    ELSE IF ~InRange(t.b, t.r, Len(t.b)) THEN Panic([t EXCEPT !.w = t.r])
                    ELSE [Out([t EXCEPT !.b = CopyInto(t.b, t.r, p),
                                        !.w = t.r + n, !.a = t.r + n],
                              <<>>, 0, "nil") EXCEPT !.path = g.path]

SetString(s, str) ==
  IF Borrowing(s) THEN Out(s, <<>>, 0, "ErrWriteBeforeAllocated")
  ELSE IF str = <<>>
  THEN IF s.c = 0 THEN Out(s, <<>>, 0, "nil")
       ELSE Out([s EXCEPT !.w = s.r, !.a = s.r], <<>>, 0, "nil")
  ELSE Set(s, str)

\* ------------------------------------------------------------ borrow / return
\* Borrow with the check for an outstanding borrow left out
BorrowUnchecked(s, size) ==
  IF size < 1 THEN Out(s, <<>>, 0, "ErrAllocateZero")
  ELSE LET g == growIfShort(s, s.c - s.w < size, size)
           t == g.s
       IN  IF g.panic \/ g.err # "nil" THEN g
           ELSE IF ~InRange(t.b, t.w, t.w + size) THEN Panic(t)
           ELSE Out([t EXCEPT !.a = t.a + size], Slice(t.b, t.w, t.w + size), 0, "nil")

\* Borrow that advances the write cursor with the allocation cursor
BorrowCommits(s, size) ==
  IF Borrowing(s) THEN Out(s, <<>>, 0, "ErrWriteBeforeAllocated")
  ELSE IF size < 1 THEN Out(s, <<>>, 0, "ErrAllocateZero")
  ELSE LET g == growIfShort(s, s.c - s.w < size, size)
           t == g.s
       IN  IF g.panic \/ g.err # "nil" THEN g
           ELSE Out([t EXCEPT !.w = t.w + size, !.a = t.a + size],
                    Slice(t.b, t.w, t.w + size), 0, "nil")

Borrow(s, size) ==
  IF Borrowing(s) THEN Out(s, <<>>, 0, "ErrWriteBeforeAllocated")
  ELSE IF size < 1 THEN Out(s, <<>>, 0, "ErrAllocateZero")
  ELSE LET g == growIfShort(s, s.c - s.w < size, size)
           t == g.s
       IN  IF g.panic \/ g.err # "nil" THEN g
           ELSE IF ~InRange(t.b, t.w, t.w + size) THEN Panic(t)
           ELSE [Out([t EXCEPT !.a = t.a + size], Slice(t.b, t.w, t.w + size), 0, "nil")
                   EXCEPT !.path = g.path]

\* Return that commits the whole borrowed region whenever used > 0
ReturnWholeView(s, used) ==
  IF s.a = s.w THEN Out(s, <<>>, 0, "nil")
  ELSE IF used < 0 THEN Panic(s)
  ELSE IF used = 0 THEN Out([s EXCEPT !.a = s.w], <<>>, 0, "nil")
  ELSE Out([s EXCEPT !.w = s.a], <<>>, 0, "nil")

Return(s, used) ==
  IF s.a = s.w THEN Out(s, <<>>, 0, "nil")
  ELSE IF used < 0 THEN Panic(s)
  ELSE IF used = 0 THEN Out([s EXCEPT !.a = s.w], <<>>, 0, "nil")
  ELSE Out([s EXCEPT !.w = s.w + used, !.a = s.w + used], <<>>, 0, "nil")

\* Reset with the check for an outstanding borrow left out
ResetAlways(s) == Out([s EXCEPT !.r = 0, !.w = 0, !.a = 0], <<>>, 0, "nil")

\* Reset that reports success also when it changed nothing
ResetBlind(s) ==
  LET ok == ~Borrowing(s)
  IN  Out(IF ok THEN [s EXCEPT !.r = 0, !.w = 0, !.a = 0] ELSE s, <<>>, 0, "nil")

Reset(s) ==
  LET ok == ~Borrowing(s)
  IN  [Out(IF ok THEN [s EXCEPT !.r = 0, !.w = 0, !.a = 0] ELSE s, <<>>, 0, "nil")
         EXCEPT !.ok = ok]

\* ------------------------------------------------------------ streams
\* An io.Reader over the bytes data: a Read hands out at most chunk bytes, and at
\* the end of the data it returns io.EOF, or another error when fail is set.
Readers == [data : Slices, chunk : {1, MaxLen}, fail : BOOLEAN]

\* r.Read(p) with len(p) = k
readerRead(rd, k) ==
  IF rd.data = <<>>
  THEN [n |-> 0, p |-> <<>>, err |-> IF rd.fail THEN "ErrReader" ELSE "EOF", rd |-> rd]
  ELSE LET m == Min(Min(k, rd.chunk), Len(rd.data))
       IN  [n |-> m, p |-> SubSeq(rd.data, 1, m), err |-> "nil",
            rd |-> [rd EXCEPT !.data = SubSeq(rd.data, m + 1, Len(rd.data))]]

\* An io.Writer that takes at most chunk bytes a call (short writes) and, when
\* room >= 0, fails on the call that uses up its room.
Writers == [chunk : {1, MaxLen}, room : (0 - 1)..MaxLen]

\* w.Write(p)
writerWrite(wr, p) ==
  LET m == IF wr.room < 0 THEN Min(Len(p), wr.chunk)
           ELSE Min(Min(Len(p), wr.chunk), wr.room)
  IN  [n |-> m, p |-> SubSeq(p, 1, m),
       err |-> IF wr.room >= 0 /\ m = wr.room THEN "ErrWriter" ELSE "nil",
       wr |-> IF wr.room < 0 THEN wr ELSE [wr EXCEPT !.room = wr.room - m]]

\* bits.Len(x): the number of bits needed to represent x
RECURSIVE bitsLen(_)
bitsLen(x) == IF x = 0 THEN 0 ELSE 1 + bitsLen(x \div 2)

\* the for loop of ReadFromWithHint; n counts the bytes read so far
RECURSIVE readFromLoop(_, _, _, _, _)
readFromLoop(s, rd, hint, n, path) ==
  LET g == growIfShort(s, s.w = s.c, hint)
      t == g.s
      path2 == IF g.path = "none" THEN path ELSE g.path
  IN  IF g.panic THEN g
      ELSE IF g.err # "nil" THEN [g EXCEPT !.n = n]
      ELSE IF ~InRange(t.b, t.w, Len(t.b)) THEN Panic(t)
      ELSE LET x == readerRead(rd, Len(t.b) - t.w)
               u == [t EXCEPT !.b = CopyInto(t.b, t.w, x.p),
                              !.w = t.w + x.n, !.a = t.w + x.n]
           IN  IF x.err # "nil"
               THEN [Out(u, <<>>, n + x.n, IF x.err = "EOF" THEN "nil" ELSE x.err)
                       EXCEPT !.path = path2]
               ELSE readFromLoop(u, x.rd, hint, n + x.n, path2)

ReadFromWithHint(s, rd, hint0) ==
  IF Borrowing(s) THEN Out(s, <<>>, 0, "ErrWriteBeforeAllocated")
  ELSE LET hint1 == IF hint0 < 1 THEN 1 ELSE hint0
           hint == IF hint1 > s.h THEN 2 ^ bitsLen(hint1 - 1) ELSE hint1
       IN  readFromLoop(s, rd, hint, 0, "none")

ReadFrom(s, rd) == ReadFromWithHint(s, rd, 1)

\* the for loop of ReadFromLimited; n bytes are still wanted, nn were read
RECURSIVE readLimitedLoop(_, _, _, _)
readLimitedLoop(s, rd, n, nn) ==
  IF ~(n > 0) THEN Out(s, <<>>, nn, "nil")
  ELSE IF ~InRange(s.b, s.w, s.w + n) THEN Panic(s)
  ELSE LET x == readerRead(rd, n)
           u == [s EXCEPT !.b = CopyInto(s.b, s.w, x.p), !.w = s.w + x.n, !.a = s.w + x.n]
       IN  IF x.err # "nil"
           THEN Out(u, <<>>, nn + x.n, IF x.err = "EOF" THEN "nil" ELSE x.err)
           ELSE readLimitedLoop(u, x.rd, n - x.n, nn + x.n)

ReadFromLimited(s, rd, n) ==
  IF Borrowing(s) THEN Out(s, <<>>, 0, "ErrWriteBeforeAllocated")
  ELSE IF n < 1 THEN Out(s, <<>>, 0, "nil")
  ELSE LET g == grow(s, n)
           l == readLimitedLoop(g.s, rd, n, 0)
       IN  IF g.panic \/ g.err # "nil" THEN g
           ELSE [l EXCEPT !.path = g.path]

\* WriteTo that takes every write for a full one: a single call, after which
\* all the unread bytes count as consumed
writeToOnce(s, wr, n, sunk) ==
  IF ~(s.r < s.w) THEN Out(s, sunk, n, "nil")
  ELSE IF ~InRange(s.b, s.r, s.w) THEN Panic(s)
  ELSE LET x == writerWrite(wr, Slice(s.b, s.r, s.w))
       IN  Out([s EXCEPT !.r = s.w], sunk \o x.p, n + x.n, x.err)

\* the for loop of WriteTo; n bytes were written, sunk is what the sink holds
RECURSIVE writeToLoop(_, _, _, _)
writeToLoop(s, wr, n, sunk) ==
  IF ~(s.r < s.w) THEN Out(s, sunk, n, "nil")
  ELSE IF ~InRange(s.b, s.r, s.w) THEN Panic(s)
  ELSE LET x == writerWrite(wr, Slice(s.b, s.r, s.w))
           u == [s EXCEPT !.r = s.r + x.n]
       IN  IF x.err # "nil" THEN Out(u, sunk \o x.p, n + x.n, x.err)
           ELSE writeToLoop(u, x.wr, n + x.n, sunk \o x.p)

WriteTo(s, wr) == writeToLoop(s, wr, 0, <<>>)

\* the for loop of WriteToLimited; n bytes are still to write, nn were written
RECURSIVE writeLimitedLoop(_, _, _, _, _)
writeLimitedLoop(s, wr, n, nn, sunk) ==
  IF ~(s.r < s.w /\ n > 0) THEN Out(s, sunk, nn, "nil")
  ELSE IF ~InRange(s.b, s.r, s.r + n) THEN Panic(s)
  ELSE LET x == writerWrite(wr, Slice(s.b, s.r, s.r + n))
           u == [s EXCEPT !.r = s.r + x.n]
       IN  IF x.err # "nil" THEN Out(u, sunk \o x.p, nn + x.n, x.err)
           ELSE writeLimitedLoop(u, x.wr, n - x.n, nn + x.n, sunk \o x.p)

WriteToLimited(s, wr, n) ==
  writeLimitedLoop(s, wr, IF buffer_Len(s) < n THEN buffer_Len(s) ELSE n, 0, <<>>)

\* ------------------------------------------------------------------ pool
steps == 20
maxSize == 2 ^ (minBitSize + steps - 1)
calibrateCallsThreshold == 42000

Buckets == 0..(steps - 1)
NoCalls == [i \in Buckets |-> 0]

\* the size of bucket i: minHint << i
bucketSize(i) == minHint * 2 ^ i

\* a BufferPool value; the free list (sync.Pool) is kept apart
defaultBufferPool ==
  [calls |-> NoCalls, calibrating |-> 0, dynamicHint |-> TRUE,
   defaultHint |-> minHint, maxSize |-> maxSize]

Pool(hint, dynamic) ==
  IF hint < minHint \/ maxSize < hint
  THEN [calls |-> NoCalls, calibrating |-> 0, dynamicHint |-> dynamic,
        defaultHint |-> hint, maxSize |-> maxSize]
  ELSE [calls |-> NoCalls, calibrating |-> 0, dynamicHint |-> dynamic,
        defaultHint |-> minHint, maxSize |-> maxSize]

\* the loop of index run once at most
indexLoopOnce(n, idx) == IF n > 0 THEN idx + 1 ELSE idx

\* the loop of index: n >>= 1 until n is not positive
RECURSIVE indexLoop(_, _)
indexLoop(n, idx) == IF n > 0 THEN indexLoop(n \div 2, idx + 1) ELSE idx

\* index without the decrement of n
indexNoDecrement(n) ==
  LET idx == indexLoop(n \div (2 ^ minBitSize), 0)
  IN  IF idx >= steps THEN steps - 1 ELSE idx

\* n-- ; n >>= minBitSize (an arithmetic shift: \div rounds down)
index(n) ==
  LET idx == indexLoop((n - 1) \div (2 ^ minBitSize), 0)
  IN  IF idx >= steps THEN steps - 1 ELSE idx

\* the same with a percentile of one half
maxSumHalf(callsSum) == callsSum \div 2

\* uint64(float64(callsSum) * maxPercentile), maxPercentile = 0.95
maxSumOf(callsSum) == (callsSum * 19) \div 20

MaxOf(S) == CHOOSE x \in S : \A y \in S : y <= x

\* calibrate's second loop over the sorted a, from position 1 on.  a is kept
\* in bucket order and rem holds the positions not yet passed.  sort.Sort is
\* not stable, so entries with equal calls may come in any order: the result
\* is the set of values maxSizeOfCall can end with.
RECURSIVE calibrateLoop(_, _, _, _, _)
calibrateLoop(a, rem, callsSum, maxSum, maxSizeOfCall) ==
  IF rem = {} \/ callsSum > maxSum THEN {maxSizeOfCall}
  ELSE LET top == MaxOf({a[j].calls : j \in rem})
           G == {j \in rem : a[j].calls = top}
           all == callsSum + top * Cardinality(G)
           gmax == MaxOf({a[j].size : j \in G} \cup {maxSizeOfCall})
       IN  IF all <= maxSum
           THEN calibrateLoop(a, rem \ G, all, maxSum, gmax)
           ELSE UNION {calibrateLoop(a, rem \ {j}, callsSum + top, maxSum,
                                     MaxOf({a[j].size, maxSizeOfCall})) :
                       j \in G}

\* calibrate with maxSizeOfCall starting from minHint and a[0] left out of the
\* second loop
calibrateStoresFromMin(a, callsSum) ==
  LET top == MaxOf({a[j].calls : j \in DOMAIN a})
  IN  UNION {{[defaultSize |-> a[j].size, maxSizeOfCall |-> m] :
                m \in calibrateLoop(a, DOMAIN a \ {j}, a[j].calls,
                                    maxSumOf(callsSum), minHint)} :
             j \in {k \in DOMAIN a : a[k].calls = top}}

\* what a pass that drained a (with sum callsSum) may store: a[0] after the
\* sort is any entry with the most calls
calibrateStores(a, callsSum) ==
  LET top == MaxOf({a[j].calls : j \in DOMAIN a})
  IN  UNION {{[defaultSize |-> a[j].size, maxSizeOfCall |-> m] :
                m \in calibrateLoop(a, DOMAIN a \ {j}, a[j].calls,
                                    maxSumOf(callsSum), a[j].size)} :
             j \in {k \in DOMAIN a : a[k].calls = top}}

\* Release's test with < for <=
releasePutsBelow(size, bCap) == size = 0 \/ bCap < size

\* Release's test before Put: size == 0 || bCap <= size
releasePuts(size, bCap) == size = 0 \/ bCap <= size

\* atomic.AddUint64(&p.calls[idx], 1): the new array
addCalls(calls, idx) == [calls EXCEPT ![idx] = @ + 1]

\* the test with a threshold one too high
overThresholdLate(n) == n > calibrateCallsThreshold + 1

\* the test on the value AddUint64 returns
overThreshold(n) == n > calibrateCallsThreshold

\* a latch that is set without being tested
casCalibratingBlind(v) == [ok |-> TRUE, v |-> 1]

\* atomic.CompareAndSwapUint64(&p.calibrating, 0, 1)
casCalibrating(v) == [ok |-> v = 0, v |-> IF v = 0 THEN 1 ELSE v]

\* a pass that reads the counter and clears the bucket above it as well
swapCallsNext(calls, i) ==
  [old |-> calls[i],
   calls |-> [j \in DOMAIN calls |-> IF j = i \/ j = i + 1 THEN 0 ELSE calls[j]]]

\* atomic.SwapUint64(&p.calls[i], 0): the old value and the new array
swapCalls(calls, i) == [old |-> calls[i], calls |-> [calls EXCEPT ![i] = 0]]

\* ------------------------------------------------------------ state
VARIABLES
  buf,        \* the buffer: [h, c, r, w, a, b]
  panicked,   \* a call on the buffer has panicked
  written,    \* history: every byte written, in order
  consumed,   \* history: "read" or "discard" for every byte consumed, in order
  readOut,    \* history: every byte returned by Read and Next, in order
  pool,       \* the BufferPool: [calls, calibrating, dynamicHint, defaultHint, maxSize]
  free,       \* the pool's free list (sync.Pool): the bag of buffers put and not yet got
  th,         \* the threads using the pool: where each is, and its locals
  gh          \* history of the pool: how it was built, releases, drained counts

history == <<written, consumed, readOut>>
poolVars == <<pool, free, th, gh>>
vars == <<buf, panicked, written, consumed, readOut, pool, free, th, gh>>

\* the threads that call Acquire and Release
Threads == {"t1", "t2"}

\* a thread outside any call, holding no buffer
Idle ==
  [pc |-> "idle", has |-> FALSE, b |-> NewBuffer, bCap |-> 0, idx |-> 0,
   i |-> 0, a |-> <<>>, callsSum |-> 0, maxSizeOfCall |-> 0, size |-> 0,
   skipped |-> FALSE]

\* the package's pool with nobody using it
InitDefaultPool ==
  /\ pool = defaultBufferPool
  /\ free = EmptyBag
  /\ th = [t \in Threads |-> Idle]
  /\ gh = [hint |-> minHint, released |-> NoCalls, drained |-> NoCalls,
           releases |-> 0, passes |-> 0]

Init ==
  /\ \E hint \in Hints : buf = NewBufferWithCapacityHint(hint)
  /\ panicked = FALSE
  /\ written = <<>>
  /\ consumed = <<>>
  /\ readOut = <<>>
  /\ InitDefaultPool

\* one call: the result res of the method becomes the state
Call(res) ==
  /\ ~panicked
  /\ res.s.c <= MaxCap
  /\ buf' = res.s
  /\ panicked' = res.panic
  /\ UNCHANGED poolVars

Do(res) == Call(res) /\ UNCHANGED history

CallPeek(n)        == Do(Peek(buf, n))
CallCloneBytes     == Do(CloneBytes(buf))
CallIndex(delim)   == Do(Index(buf, delim))
CallNext(n)        == Do(buffer_Next(buf, n))
CallRead(k)        == Do(Read(buf, k))
CallReadByte       == Do(ReadByte(buf))
CallReadBytes(d)   == Do(ReadBytes(buf, d))
CallDiscard(n)     == Do(Discard(buf, n))
CallWrite(p)       == Do(Write(buf, p))
CallWriteString(s) == Do(WriteString(buf, s))
CallWriteByte(c)   == Do(WriteByte(buf, c))
CallSet(p)         == Do(Set(buf, p))
CallSetString(s)   == Do(SetString(buf, s))
CallBorrow(size)   == Do(Borrow(buf, size))
CallReset          == Do(Reset(buf))
CallReadFrom(rd)   == Do(ReadFrom(buf, rd))
CallReadFromWithHint(rd, hint) == Do(ReadFromWithHint(buf, rd, hint))
CallReadFromLimited(rd, n)     == Do(ReadFromLimited(buf, rd, n))
CallWriteTo(wr)                == Do(WriteTo(buf, wr))
CallWriteToLimited(wr, n)      == Do(WriteToLimited(buf, wr, n))

\* Return as its contract allows it: used is at most the size borrowed
CallReturn(used) ==
  /\ Borrowing(buf) => used <= buf.a - buf.w
  /\ Do(Return(buf, used))

\* Return with any argument
CallReturnAny(used) == Do(Return(buf, used))

\* the caller fills the borrowed view p = b[w:a]: copy(p, data)
FillView(data) ==
  /\ ~panicked
  /\ Borrowing(buf)
  /\ data # <<>>
  /\ InRange(buf.b, buf.w, buf.a)
  /\ buf' = [buf EXCEPT !.b = CopyInto(buf.b, buf.w,
                                       SubSeq(data, 1, Min(Len(data), buf.a - buf.w)))]
  /\ UNCHANGED <<panicked, written, consumed, readOut>>
  /\ UNCHANGED poolVars

Next ==
  \/ \E n \in Sizes : CallPeek(n)
  \/ CallCloneBytes
  \/ \E d \in Byte : CallIndex(d)
  \/ \E n \in Sizes : CallNext(n)
  \/ \E k \in 0..(MaxLen + 1) : CallRead(k)
  \/ CallReadByte
  \/ \E d \in Byte : CallReadBytes(d)
  \/ \E n \in Sizes : CallDiscard(n)
  \/ \E p \in Slices : CallWrite(p)
  \/ \E s \in Slices : CallWriteString(s)
  \/ \E c \in Byte : CallWriteByte(c)
  \/ \E p \in Slices : CallSet(p)
  \/ \E s \in Slices : CallSetString(s)
  \/ \E size \in Sizes : CallBorrow(size)
  \/ \E used \in 0..(MaxLen + 1) : CallReturn(used)
  \/ \E data \in Slices : FillView(data)
  \/ CallReset
  \/ \E rd \in Readers : CallReadFrom(rd)
  \/ \E rd \in Readers, hint \in Sizes : CallReadFromWithHint(rd, hint)
  \/ \E rd \in Readers, n \in Sizes : CallReadFromLimited(rd, n)
  \/ \E wr \in Writers : CallWriteTo(wr)
  \/ \E wr \in Writers, n \in Sizes : CallWriteToLimited(wr, n)

\* callers keep Return's contract
Spec == Init /\ [][Next]_vars

\* every call, and Return with any argument
NextAny ==
  \/ Next
  \/ \E used \in Sizes : CallReturnAny(used)

SpecAny == Init /\ [][NextAny]_vars

\* ------------------------------------------------------------ FIFO history
\* Write, Read, Next and Discard alone, with the history of the bytes that went
\* in and came out.  Discard(n) is asked to drop min(n, Len()) bytes.
Marks(k, m) == [i \in 1..k |-> m]

FifoWrite(p) ==
  /\ Len(written) + Len(p) <= MaxWritten
  /\ Call(Write(buf, p))
  /\ written' = written \o SubSeq(p, 1, Write(buf, p).n)
  /\ UNCHANGED <<consumed, readOut>>

FifoRead(k) ==
  /\ Call(Read(buf, k))
  /\ consumed' = consumed \o Marks(Read(buf, k).n, "read")
  /\ readOut' = readOut \o Read(buf, k).p
  /\ UNCHANGED written

FifoNext(n) ==
  /\ Call(buffer_Next(buf, n))
  /\ consumed' = consumed \o Marks(Len(buffer_Next(buf, n).p), "read")
  /\ readOut' = readOut \o buffer_Next(buf, n).p
  /\ UNCHANGED written

FifoDiscard(n) ==
  /\ Call(Discard(buf, n))
  /\ consumed' = consumed \o Marks(IF n < 1 THEN 0 ELSE Min(n, buffer_Len(buf)), "discard")
  /\ UNCHANGED <<written, readOut>>

NextFifo ==
  \/ \E p \in Slices : FifoWrite(p)
  \/ \E k \in 0..(MaxLen + 1) : FifoRead(k)
  \/ \E n \in Sizes : FifoNext(n)
  \/ \E n \in Sizes : FifoDiscard(n)

SpecFifo == Init /\ [][NextFifo]_vars

\* ------------------------------------------------------------ pool in use
\* Threads acquire buffers from one pool, use them and release them.  Every
\* atomic operation of Acquire, Release and calibrate is a step of its own.
MaxBufs == 2       \* buffers alive at once: held by a thread or on the free list
MaxReleases == 2   \* calls of Release in a run
MaxPoolCap == 2 * minHint   \* a pooled buffer is not grown above this
PoolHints == {1, 2 * minHint}
PoolWrites == {1, minHint + 1}

Alive == BagCardinality(free) + Cardinality({t \in Threads : th[t].has})

\* a pool as Pool(hint, dynamic) built it; a dynamic one with a hint in range
\* may have counted releases of buffers of the two smallest buckets without a
\* calibration yet
InitPool ==
  /\ buf = NewBuffer
  /\ panicked = FALSE
  /\ written = <<>>
  /\ consumed = <<>>
  /\ readOut = <<>>
  /\ \E hint \in PoolHints, dynamic \in BOOLEAN :
       \E c0 \in {0, calibrateCallsThreshold - 1, calibrateCallsThreshold},
          c1 \in {0, calibrateCallsThreshold} :
         LET calls == IF dynamic /\ hint >= minHint
                      THEN [NoCalls EXCEPT ![0] = c0, ![1] = c1]
                      ELSE NoCalls
         IN  /\ pool = [Pool(hint, dynamic) EXCEPT !.calls = calls]
             /\ gh = [hint |-> hint, released |-> calls, drained |-> NoCalls,
                      releases |-> 0, passes |-> 0]
  /\ free = EmptyBag
  /\ th = [t \in Threads |-> Idle]

\* thread t moves to rec; the buffer outside the pool is not touched
Step(t, rec) ==
  /\ th' = [th EXCEPT ![t] = rec]
  /\ UNCHANGED <<buf, panicked, written, consumed, readOut>>

\* Acquire: p.pool.Get() returns a buffer of the free list
AcquireHit(t) ==
  /\ th[t].pc = "idle"
  /\ \E v \in BagToSet(free) :
       /\ free' = free (-) SetToBag({v})
       /\ Step(t, [th[t] EXCEPT !.pc = "held", !.has = TRUE, !.b = v])
  /\ UNCHANGED <<pool, gh>>

\* Acquire: p.pool.Get() returns nil
AcquireMiss(t) ==
  /\ th[t].pc = "idle"
  /\ Alive < MaxBufs
  /\ Step(t, [th[t] EXCEPT !.pc = "new", !.has = TRUE])
  /\ UNCHANGED <<pool, free, gh>>

\* Acquire: NewBufferWithCapacityHint(int(atomic.LoadUint64(&p.defaultHint)))
AcquireNew(t) ==
  /\ th[t].pc = "new"
  /\ Step(t, [th[t] EXCEPT !.pc = "held",
                           !.b = NewBufferWithCapacityHint(pool.defaultHint)])
  /\ UNCHANGED <<pool, free, gh>>

\* the holder calls a method on its buffer, once; a buffer whose hint is above
\* MaxPoolCap is left as it is, since any growth would take it above MaxPoolCap
Use(t, res) ==
  /\ th[t].pc = "held"
  /\ th[t].b.w = 0 /\ ~Borrowing(th[t].b)
  /\ CapacityHint(th[t].b) <= MaxPoolCap
  /\ ~res.panic
  /\ res.s.c <= MaxPoolCap
  /\ Step(t, [th[t] EXCEPT !.b = res.s])
  /\ UNCHANGED <<pool, free, gh>>

UseWrite(t, k) == Use(t, Write(th[t].b, Zeros(k)))
UseBorrow(t, size) == Use(t, Borrow(th[t].b, size))

\* Release: b.Reset(), b.Capacity() and p.index(bCap), all local to the caller
ReleaseReset(t) ==
  /\ th[t].pc = "held"
  /\ LET res == Reset(th[t].b)
         bCap == Capacity(res.s)
     IN  IF res.ok
         THEN Step(t, [th[t] EXCEPT !.b = res.s, !.bCap = bCap,
                                    !.idx = IF pool.dynamicHint THEN index(bCap) ELSE 0,
                                    !.pc = IF pool.dynamicHint THEN "add" ELSE "load"])
         ELSE Step(t, Idle)
  /\ gh' = [gh EXCEPT !.releases = @ + 1]
  /\ UNCHANGED <<pool, free>>

\* Release: atomic.AddUint64(&p.calls[idx], 1) > calibrateCallsThreshold
ReleaseAdd(t) ==
  /\ th[t].pc = "add"
  /\ LET calls == addCalls(pool.calls, th[t].idx)
     IN  /\ pool' = [pool EXCEPT !.calls = calls]
         /\ Step(t, [th[t] EXCEPT !.pc = IF overThreshold(calls[th[t].idx])
                                         THEN "cas" ELSE "load"])
  /\ gh' = [gh EXCEPT !.released[th[t].idx] = @ + 1]
  /\ UNCHANGED free

\* calibrate: the compare-and-swap of the latch
CalibrateCas(t) ==
  /\ th[t].pc = "cas"
  /\ LET c == casCalibrating(pool.calibrating)
     IN  /\ pool' = [pool EXCEPT !.calibrating = c.v]
         /\ IF c.ok
            THEN /\ Step(t, [th[t] EXCEPT !.pc = "swap", !.i = 0, !.a = <<>>,
                                          !.callsSum = 0])
                 /\ gh' = [gh EXCEPT !.passes = @ + 1]
            ELSE /\ Step(t, [th[t] EXCEPT !.pc = "load", !.skipped = TRUE])
                 /\ UNCHANGED gh
  /\ UNCHANGED free

\* calibrate: one turn of the first loop
CalibrateSwap(t) ==
  /\ th[t].pc = "swap"
  /\ LET i == th[t].i
         s == swapCalls(pool.calls, i)
     IN  /\ pool' = [pool EXCEPT !.calls = s.calls]
         /\ Step(t, [th[t] EXCEPT
                       !.a = Append(@, [calls |-> s.old, size |-> bucketSize(i)]),
                       !.callsSum = @ + s.old,
                       !.i = i + 1,
                       !.pc = IF i + 1 < steps THEN "swap" ELSE "sort"])
         /\ gh' = [gh EXCEPT !.drained[i] = @ + s.old]
  /\ UNCHANGED free

\* calibrate: the sort, the second loop and the store of defaultHint
CalibrateStoreHint(t) ==
  /\ th[t].pc = "sort"
  /\ \E st \in calibrateStores(th[t].a, th[t].callsSum) :
       /\ pool' = [pool EXCEPT !.defaultHint = st.defaultSize]
       /\ Step(t, [th[t] EXCEPT !.pc = "storeMax",
                                !.maxSizeOfCall = st.maxSizeOfCall])
  /\ UNCHANGED <<free, gh>>

\* calibrate: the store of maxSize
CalibrateStoreMax(t) ==
  /\ th[t].pc = "storeMax"
  /\ pool' = [pool EXCEPT !.maxSize = th[t].maxSizeOfCall]
  /\ Step(t, [th[t] EXCEPT !.pc = "unlatch"])
  /\ UNCHANGED <<free, gh>>

\* calibrate: the store that clears the latch
CalibrateUnlatch(t) ==
  /\ th[t].pc = "unlatch"
  /\ pool' = [pool EXCEPT !.calibrating = 0]
  /\ Step(t, [th[t] EXCEPT !.pc = "load", !.i = 0, !.a = <<>>, !.callsSum = 0,
                           !.maxSizeOfCall = 0])
  /\ UNCHANGED <<free, gh>>

\* Release: size := int(atomic.LoadUint64(&p.maxSize))
ReleaseLoad(t) ==
  /\ th[t].pc = "load"
  /\ Step(t, [th[t] EXCEPT !.pc = "put", !.size = pool.maxSize])
  /\ UNCHANGED <<pool, free, gh>>

\* Release: p.pool.Put(b) if the test allows it
ReleasePut(t) ==
  /\ th[t].pc = "put"
  /\ free' = IF releasePuts(th[t].size, th[t].bCap)
             THEN free (+) SetToBag({th[t].b}) ELSE free
  /\ Step(t, Idle)
  /\ UNCHANGED <<pool, gh>>

NextPool ==
  \/ \E t \in Threads : AcquireHit(t)
  \/ \E t \in Threads : AcquireMiss(t)
  \/ \E t \in Threads : AcquireNew(t)
  \/ \E t \in Threads, k \in PoolWrites : UseWrite(t, k)
  \/ \E t \in Threads : UseBorrow(t, 1)
  \/ \E t \in Threads : gh.releases < MaxReleases /\ ReleaseReset(t)
  \/ \E t \in Threads : ReleaseAdd(t)
  \/ \E t \in Threads : CalibrateCas(t)
  \/ \E t \in Threads : CalibrateSwap(t)
  \/ \E t \in Threads : CalibrateStoreHint(t)
  \/ \E t \in Threads : CalibrateStoreMax(t)
  \/ \E t \in Threads : CalibrateUnlatch(t)
  \/ \E t \in Threads : ReleaseLoad(t)
  \/ \E t \in Threads : ReleasePut(t)

SpecPool == InitPool /\ [][NextPool]_vars

\* ------------------------------------------------------------ one cycle
\* One thread repeats Acquire, Write of 4096 bytes, Release on a dynamic pool.
\* A run starts with the pool as Pool built it, or as calibrateCallsThreshold - 1
\* turns of the cycle leave it: every turn before the first calibration adds 1
\* to the counter of the bucket of 4096 and changes nothing else in the pool.
CycleBytes == bucketSize(6)
MaxCycles == 3     \* turns of the cycle in a run
CycleStarts == {0, calibrateCallsThreshold - 1}

InitCycle ==
  /\ buf = NewBuffer
  /\ panicked = FALSE
  /\ written = <<>>
  /\ consumed = <<>>
  /\ readOut = <<>>
  /\ \E n \in CycleStarts, hint \in PoolHints :
       LET calls == [NoCalls EXCEPT ![index(CycleBytes)] = n]
       IN  /\ pool = [Pool(hint, TRUE) EXCEPT !.calls = calls]
           /\ gh = [hint |-> hint, released |-> calls, drained |-> NoCalls,
                    releases |-> n, passes |-> 0]
  /\ free = EmptyBag
  /\ th = [t \in Threads |-> Idle]

CycleWrite(t) ==
  /\ th[t].pc = "held"
  /\ buffer_Len(th[t].b) = 0
  /\ Step(t, [th[t] EXCEPT !.b = Write(th[t].b, Zeros(CycleBytes)).s])
  /\ UNCHANGED <<pool, free, gh>>

CycleRelease(t) ==
  /\ buffer_Len(th[t].b) = CycleBytes
  /\ \E n \in CycleStarts : n <= gh.releases /\ gh.releases < n + MaxCycles
  /\ ReleaseReset(t)

NextCycle ==
  \/ AcquireHit("t1")
  \/ AcquireMiss("t1")
  \/ AcquireNew("t1")
  \/ CycleWrite("t1")
  \/ CycleRelease("t1")
  \/ ReleaseAdd("t1")
  \/ CalibrateCas("t1")
  \/ CalibrateSwap("t1")
  \/ CalibrateStoreHint("t1")
  \/ CalibrateStoreMax("t1")
  \/ CalibrateUnlatch("t1")
  \/ ReleaseLoad("t1")
  \/ ReleasePut("t1")

SpecCycle == InitCycle /\ [][NextCycle]_vars

\* ------------------------------------------------------------ large buffers
\* Capacities near maxInt.  The store is kept by its length alone: buf.b is
\* len(buf.b), and 0 stands for nil (grow never makes an empty store).  Borrow,
\* Return, Discard and Reset move the cursors without looking at the bytes.
BigUnit == (maxInt - 3) \div 4 + 1

BigHints == {1, BigUnit, 2 * BigUnit}

BigSizes == {1, BigUnit, 2 * BigUnit, 2 * BigUnit + 1}

\* the cursors stay within MaxOff bytes of a multiple of BigUnit
MaxOff == 2

NearUnit(x) == x % BigUnit <= MaxOff

\* size rounded up to a multiple of base is above maxInt: the conversion
\* int(math.Ceil(...) * float64(base)) has no defined result
adjustOverflows(size, base) == (size - 1) \div base + 1 > maxInt \div base

\* grow on the length of the store
growLen(s, n) ==
  IF n < 1 THEN Out(s, <<>>, 0, "nil")
  ELSE IF Borrowing(s) THEN Out(s, <<>>, 0, "ErrWriteBeforeAllocated")
  ELSE IF s.b = 0
  THEN IF adjustOverflows(n, s.h)
       THEN [Panic(s) EXCEPT !.path = "init"]
       ELSE LET adjustedSize == adjustBufferSize(n, s.h)
            IN  [Out([s EXCEPT !.r = 0, !.w = 0, !.a = 0,
                               !.c = s.c + adjustedSize, !.b = adjustedSize],
                     <<>>, 0, "nil") EXCEPT !.path = "init"]
  ELSE LET t == shrink(s)
           bLen == buffer_Len(t)
           bCap == Capacity(t)
           remains == bCap - bLen
       IN  IF n <= remains
           THEN IF t.r = 0
                THEN [Out(t, <<>>, 0, "nil") EXCEPT !.path = "fits"]
                ELSE [Out([t EXCEPT !.r = 0, !.w = bLen, !.a = bLen], <<>>, 0, "nil")
                        EXCEPT !.path = "shift"]
           ELSE LET m == n - remains
                    adjustedSize == adjustBufferSize(m, t.h)
                IN  IF t.c > maxInt - t.c - m THEN Out(t, <<>>, 0, "ErrTooLarge")
                    ELSE [Out([t EXCEPT !.r = 0, !.w = bLen, !.a = bLen,
                                        !.c = t.c + adjustedSize,
                                        !.b = adjustedSize + bCap],
                              <<>>, 0, "nil") EXCEPT !.path = "alloc"]

\* Borrow on the length of the store
BorrowLen(s, size) ==
  IF Borrowing(s) THEN Out(s, <<>>, 0, "ErrWriteBeforeAllocated")
  ELSE IF size < 1 THEN Out(s, <<>>, 0, "ErrAllocateZero")
  ELSE LET g == IF s.c - s.w < size THEN growLen(s, size) ELSE Out(s, <<>>, 0, "nil")
           t == g.s
       IN  IF g.panic \/ g.err # "nil" THEN g
           ELSE IF ~(0 <= t.w /\ t.w + size <= t.b) THEN Panic(t)
           ELSE [Out([t EXCEPT !.a = t.a + size], <<>>, 0, "nil") EXCEPT !.path = g.path]

InitBig ==
  /\ \E hint \in BigHints : buf = [NewBufferWithCapacityHint(hint) EXCEPT !.b = 0]
  /\ panicked = FALSE
  /\ written = <<>>
  /\ consumed = <<>>
  /\ readOut = <<>>
  /\ InitDefaultPool

\* one call on the large buffer.  When the first grow panics, buf.c has already
\* been given the converted size, whatever the conversion made of it.
BigCall(res) ==
  /\ ~panicked
  /\ NearUnit(res.s.r) /\ NearUnit(res.s.w) /\ NearUnit(res.s.a)
  /\ IF res.panic /\ res.path = "init"
     THEN \E v \in {maxInt, 0 - maxInt - 1} : buf' = [res.s EXCEPT !.c = v]
     ELSE buf' = res.s
  /\ panicked' = res.panic
  /\ UNCHANGED <<history, poolVars>>

BigBorrow(size) == BigCall(BorrowLen(buf, size))

BigReturn(used) ==
  /\ Borrowing(buf)
  /\ used <= buf.a - buf.w
  /\ BigCall(Return(buf, used))

BigDiscard(n) == BigCall(Discard(buf, n))

BigReset == BigCall(Reset(buf))

NextBig ==
  \/ \E size \in BigSizes : BigBorrow(size)
  \/ \E used \in {0} \cup BigSizes : BigReturn(used)
  \/ \E n \in BigSizes : BigDiscard(n)
  \/ BigReset

SpecBig == InitBig /\ [][NextBig]_vars

\* ------------------------------------------------------------ one release
\* A thread releases to the package's pool a buffer of its own, of any capacity
\* around the bucket sizes.  The store is kept by its length, as above.
IndexCaps ==
  {0, 1, minHint - 1, 2 * maxSize}
    \cup {bucketSize(i) : i \in Buckets} \cup {bucketSize(i) + 1 : i \in Buckets}

InitIndex ==
  /\ buf = NewBuffer
  /\ panicked = FALSE
  /\ written = <<>>
  /\ consumed = <<>>
  /\ readOut = <<>>
  /\ pool = defaultBufferPool
  /\ free = EmptyBag
  /\ \E n \in IndexCaps :
       th = [t \in Threads |->
               IF t = "t1"
               THEN [Idle EXCEPT !.pc = "held", !.has = TRUE,
                                 !.b = [NewBufferWithCapacityHint(1) EXCEPT !.c = n, !.b = n]]
               ELSE Idle]
  /\ gh = [hint |-> minHint, released |-> NoCalls, drained |-> NoCalls,
           releases |-> 0, passes |-> 0]

NextIndex ==
  \/ ReleaseReset("t1")
  \/ ReleaseAdd("t1")
  \/ ReleaseLoad("t1")
  \/ ReleasePut("t1")

SpecIndex == InitIndex /\ [][NextIndex]_vars

\* ------------------------------------------------------------ properties
\* while callers keep Return's contract no call panics
NoPanic == ~panicked

IsPrefix(x, y) == Len(x) <= Len(y) /\ SubSeq(y, 1, Len(x)) = x

\* the call succeeded
Fine(res) == ~res.panic /\ res.err = "nil"

\* the call failed with ErrWriteBeforeAllocated and changed nothing
Refused(res) == ~res.panic /\ res.err = "ErrWriteBeforeAllocated" /\ res.s = buf

\* C1: after every public call, whatever the calls and their arguments were,
\* 0 <= r <= w <= a <= c.
CursorsOrdered ==
  /\ 0 <= buf.r
  /\ buf.r <= buf.w
  /\ buf.w <= buf.a
  /\ buf.a <= buf.c

\* the written bytes among the first k that were read, not discarded
RECURSIVE KeptOf(_)
KeptOf(k) ==
  IF k = 0 THEN <<>>
  ELSE IF consumed[k] = "read" THEN Append(KeptOf(k - 1), written[k])
  ELSE KeptOf(k - 1)

Discarded == Cardinality({i \in 1..Len(consumed) : consumed[i] = "discard"})

\* C2: over any run of Write, Read, Next and Discard the bytes Read and Next
\* returned are the written bytes without the discarded ones, in order, and
\* Len() is the bytes written minus the bytes read minus the bytes discarded.
FifoOrder ==
  /\ Len(consumed) <= Len(written)
  /\ readOut = KeptOf(Len(consumed))
  /\ buffer_Len(buf) = Len(written) - Len(readOut) - Discarded

WitnessFifoOrder ==
  /\ Len(readOut) >= 2
  /\ buffer_Len(buf) > 0
  /\ buf.c > buf.h
  /\ \E i, j \in 1..Len(consumed) : i < j /\ consumed[i] = "discard" /\ consumed[j] = "read"
  /\ \E i \in 1..Len(readOut) : readOut[i] # readOut[1]

\* C3: while a borrow is outstanding Write, WriteByte, Set, SetString, Borrow,
\* ReadFrom, ReadFromWithHint and ReadFromLimited fail with
\* ErrWriteBeforeAllocated and Reset returns false, for every argument, and the
\* cursors, the capacity and the stored bytes stay as they were.
BorrowRefusesWrites ==
  Borrowing(buf) =>
    /\ \A p \in Slices :
         /\ Refused(Write(buf, p))
         /\ Refused(Set(buf, p))
         /\ Refused(SetString(buf, p))
    /\ \A c \in Byte : Refused(WriteByte(buf, c))
    /\ \A size \in Sizes : Refused(Borrow(buf, size))
    /\ \A rd \in Readers :
         /\ Refused(ReadFrom(buf, rd))
         /\ \A n \in Sizes :
              /\ Refused(ReadFromWithHint(buf, rd, n))
              /\ Refused(ReadFromLimited(buf, rd, n))
    /\ ~Reset(buf).ok
    /\ Reset(buf).s = buf

WitnessBorrowRefusesWrites ==
  /\ Borrowing(buf)
  /\ buffer_Len(buf) > 0
  /\ buf.a < buf.c
  /\ Borrow(buf, 1).err = "ErrWriteBeforeAllocated"

\* C4: with no borrow outstanding Borrow(size), size >= 1, returns size bytes,
\* the bytes at the write cursor; Len() and the unread bytes stay as they were,
\* a = w + size, and the view lies in the backing store (w + size <= c).
BorrowView ==
  ~Borrowing(buf) =>
    \A size \in 1..(MaxLen + 1) :
      LET res == Borrow(buf, size)
          t == res.s
      IN  /\ Fine(res)
          /\ t.c = Len(t.b)
          /\ t.w + size <= t.c
          /\ t.a = t.w + size
          /\ Borrowing(t)
          /\ Len(res.p) = size
          /\ res.p = Slice(t.b, t.w, t.w + size)
          /\ buffer_Len(t) = buffer_Len(buf)
          /\ Unread(t) = Unread(buf)

WitnessBorrowView ==
  /\ ~Borrowing(buf)
  /\ buf.r > 0
  /\ buffer_Len(buf) > 0
  /\ \E size \in 1..(MaxLen + 1) : Borrow(buf, size).path = "alloc"
  /\ \E size \in 1..(MaxLen + 1) : Borrow(buf, size).path = "shift"

\* C5: with n bytes borrowed, Return(k), 0 <= k <= n, adds k to Len(), appends
\* the first k bytes of the view to the unread bytes and ends the borrow
\* (a = w), so that a Write then appends after them; and Borrow followed by
\* Return(0) leaves the unread bytes as they were before the Borrow.
ReturnCommits ==
  /\ Borrowing(buf) =>
       \A k \in 0..(buf.a - buf.w) :
         LET res == Return(buf, k)
             t == res.s
         IN  /\ Fine(res)
             /\ buffer_Len(t) = buffer_Len(buf) + k
             /\ Unread(t) = Unread(buf) \o Slice(buf.b, buf.w, buf.w + k)
             /\ t.a = t.w
             /\ ~Borrowing(t)
             /\ \A p \in Slices :
                  /\ Fine(Write(t, p))
                  /\ Unread(Write(t, p).s) = Unread(t) \o p
  /\ ~Borrowing(buf) =>
       \A size \in 1..(MaxLen + 1) :
         /\ Unread(Return(Borrow(buf, size).s, 0).s) = Unread(buf)
         /\ ~Borrowing(Return(Borrow(buf, size).s, 0).s)

WitnessReturnCommits ==
  /\ Borrowing(buf)
  /\ buf.a - buf.w >= 2
  /\ buffer_Len(buf) > 0
  /\ buf.b[buf.w + 1] = 1
  /\ buffer_Len(Return(buf, 1).s) = buffer_Len(buf) + 1

\* C6: Return(used) with used above the size borrowed is rejected: the write
\* cursor does not pass the end of the borrowed region, nor the capacity.
ReturnRejectsOveruse ==
  Borrowing(buf) =>
    \A used \in Sizes :
      used > buf.a - buf.w =>
        /\ Return(buf, used).s.w <= buf.a
        /\ Return(buf, used).s.w <= buf.c

\* C7: Reset returns true exactly when no borrow is outstanding; then the three
\* cursors are 0 and the capacity and the backing store are kept; when it
\* returns false nothing has changed.
ResetGate ==
  LET res == Reset(buf)
      t == res.s
  IN  /\ ~res.panic
      /\ res.ok = ~Borrowing(buf)
      /\ res.ok => /\ t.r = 0 /\ t.w = 0 /\ t.a = 0
                   /\ buffer_Len(t) = 0
                   /\ t.c = buf.c /\ t.b = buf.b /\ t.h = buf.h
      /\ ~res.ok => t = buf

WitnessResetGate ==
  /\ ~Borrowing(buf)
  /\ buf.r > 0
  /\ buffer_Len(buf) > 0
  /\ Reset(buf).ok
  /\ ~Reset(Borrow(buf, 1).s).ok

\* C8: growth and compaction keep the unread bytes: grow leaves them as they
\* were, and a write-side call that compacts or reallocates yields the old
\* unread bytes followed by what it wrote.
GrowKeepsUnread ==
  ~Borrowing(buf) =>
    /\ \A n \in Sizes :
         /\ Fine(grow(buf, n))
         /\ Unread(grow(buf, n).s) = Unread(buf)
    /\ \A p \in Slices :
         Write(buf, p).path \in {"shift", "alloc"} =>
           Unread(Write(buf, p).s) = Unread(buf) \o p
    /\ \A c \in Byte :
         WriteByte(buf, c).path \in {"shift", "alloc"} =>
           Unread(WriteByte(buf, c).s) = Unread(buf) \o <<c>>
    /\ \A size \in Sizes :
         Borrow(buf, size).path \in {"shift", "alloc"} =>
           Unread(Borrow(buf, size).s) = Unread(buf)
    /\ \A rd \in Readers, n \in Sizes :
         /\ ReadFromWithHint(buf, rd, n).path \in {"shift", "alloc"} =>
              IsPrefix(Unread(buf), Unread(ReadFromWithHint(buf, rd, n).s))
         /\ ReadFromLimited(buf, rd, n).path \in {"shift", "alloc"} =>
              IsPrefix(Unread(buf), Unread(ReadFromLimited(buf, rd, n).s))

WitnessGrowKeepsUnread ==
  /\ ~Borrowing(buf)
  /\ buf.r > 0
  /\ buffer_Len(buf) >= 2
  /\ Unread(buf)[1] # Unread(buf)[2]
  /\ \E n \in Sizes : grow(buf, n).path = "shift"
  /\ \E n \in Sizes : grow(buf, n).path = "alloc"

\* C9: with no borrow outstanding Set(src) and SetString(src) succeed and the
\* unread bytes are then src, whatever they were, wherever the read cursor was,
\* also when Set grows or compacts the buffer and when src is empty.
SetReplaces ==
  ~Borrowing(buf) =>
    \A p \in Slices :
      /\ Fine(Set(buf, p))
      /\ buffer_Len(Set(buf, p).s) = Len(p)
      /\ Unread(Set(buf, p).s) = p
      /\ Fine(SetString(buf, p))
      /\ buffer_Len(SetString(buf, p).s) = Len(p)
      /\ Unread(SetString(buf, p).s) = p

WitnessSetReplaces ==
  /\ ~Borrowing(buf)
  /\ buf.r > 0
  /\ buffer_Len(buf) > 0
  /\ \E p \in Slices : Set(buf, p).path = "alloc" /\ Unread(Set(buf, p).s) = p
  /\ \E p \in Slices : Set(buf, p).path = "shift" /\ Unread(Set(buf, p).s) = p

\* C10: on a non-empty buffer ReadBytes(delim) returns without error the unread
\* bytes through the first delim and leaves the bytes after it unread; without
\* a delim it returns all unread bytes without error and leaves the buffer
\* empty; it returns end-of-data only when the buffer is empty.
ReadBytesLine ==
  \A d \in Byte :
    LET res == ReadBytes(buf, d)
        u == Unread(buf)
    IN  /\ ~res.panic
        /\ res.err = "EOF" <=> buffer_Len(buf) = 0
        /\ buffer_Len(buf) > 0 =>
             /\ res.err = "nil"
             /\ IF \E k \in 1..Len(u) : u[k] = d
                THEN \E k \in 1..Len(u) :
                       /\ u[k] = d
                       /\ \A j \in 1..(k - 1) : u[j] # d
                       /\ res.p = SubSeq(u, 1, k)
                       /\ Unread(res.s) = SubSeq(u, k + 1, Len(u))
                ELSE /\ res.p = u
                     /\ buffer_Len(res.s) = 0

WitnessReadBytesLine ==
  /\ buffer_Len(buf) >= 2
  /\ buf.r > 0
  /\ \E d \in Byte : /\ ReadBytes(buf, d).err = "nil"
                     /\ Len(ReadBytes(buf, d).p) = 1
                     /\ buffer_Len(ReadBytes(buf, d).s) = buffer_Len(buf) - 1

\* C11: Next(n) fails with the end-of-data signal if and only if the buffer is
\* empty at call time, for every n; on a non-empty buffer it returns exactly
\* min(n, Len()) bytes, the first unread ones, without error, and advances the
\* read cursor by that many bytes.
NextEofIffEmpty ==
  \A n \in Sizes :
    LET res == buffer_Next(buf, n)
    IN  /\ ~res.panic
        /\ res.err = "EOF" <=> buffer_Len(buf) = 0
        /\ buffer_Len(buf) > 0 /\ n >= 0 =>
             /\ res.err = "nil"
             /\ res.p = SubSeq(Unread(buf), 1, Min(n, buffer_Len(buf)))
             /\ buffer_Len(res.s) = buffer_Len(buf) - Min(n, buffer_Len(buf))

\* C11 (amended): for n >= 1, Next(n) fails with the end-of-data signal if and
\* only if the buffer is empty at call time, and on a non-empty buffer it
\* returns exactly the first min(n, Len()) unread bytes without error and
\* leaves the rest unread: the read cursor advances by that many bytes, and
\* is reset to 0 when nothing is left unread and no borrow is outstanding; for
\* n < 1 it returns no bytes and no error and leaves the buffer as it was.
NextClamps ==
  \A n \in Sizes :
    LET res == buffer_Next(buf, n)
        u == Unread(buf)
        m == Min(n, Len(u))
    IN  /\ ~res.panic
        /\ n < 1 => res.err = "nil" /\ res.p = <<>> /\ res.s = buf
        /\ n >= 1 =>
             /\ res.err = "EOF" <=> Len(u) = 0
             /\ Len(u) = 0 => res.p = <<>> /\ res.s = buf
             /\ Len(u) > 0 =>
                  /\ res.err = "nil"
                  /\ res.p = SubSeq(u, 1, m)
                  /\ Unread(res.s) = SubSeq(u, m + 1, Len(u))
                  /\ buffer_Len(res.s) = Len(u) - m
                  /\ res.s.r = IF m = Len(u) /\ ~Borrowing(buf) THEN 0
                              ELSE buf.r + m

WitnessNextClamps ==
  /\ buffer_Len(buf) = 2
  /\ buf.r > 0
  /\ Len(buffer_Next(buf, 1).p) = 1
  /\ buffer_Next(buf, 1).s.r = buf.r + 1
  /\ Len(buffer_Next(buf, MaxLen + 1).p) = 2
  /\ buffer_Next(buf, MaxLen + 1).err = "nil"

\* C12: a buffer freshly returned by NewBuffer() reports Capacity() = 64 (the
\* minimum hint) and Len() = 0 before any write, and a buffer just constructed
\* with capacity hint h has capacity h (h rounded up to a multiple of h).
FreshCapacity ==
  /\ Capacity(NewBuffer) = minHint
  /\ buffer_Len(NewBuffer) = 0
  /\ buf = NewBufferWithCapacityHint(buf.h) =>
       /\ Capacity(buf) = adjustBufferSize(buf.h, buf.h)
       /\ Capacity(buf) = buf.h
       /\ buffer_Len(buf) = 0

\* C13: Release(buf) puts buf on the free list if and only if buf.Reset()
\* succeeded and maxPoolableSize, as Release reads it, is 0 or at least
\* buf.Capacity(); a buffer with an outstanding borrow is never pooled and never
\* counted in the histogram, and a buffer whose capacity exceeds
\* maxPoolableSize is dropped.
ReleasePools ==
  [][\A t \in Threads :
       /\ th[t].pc = "held" /\ th'[t].pc # "held" =>
            IF Borrowing(th[t].b)
            THEN th'[t] = Idle /\ free' = free /\ pool' = pool
            ELSE /\ th'[t].pc \in {"add", "load"}
                 /\ th'[t].pc = "add" <=> pool.dynamicHint
                 /\ th'[t].bCap = Capacity(th[t].b)
                 /\ free' = free
       /\ th[t].pc = "load" /\ th'[t].pc # "load" =>
            th'[t].pc = "put" /\ th'[t].size = pool.maxSize /\ free' = free
       /\ th[t].pc = "put" /\ th'[t].pc # "put" =>
            /\ th'[t] = Idle
            /\ free' = IF th[t].size = 0 \/ th[t].bCap <= th[t].size
                       THEN free (+) SetToBag({th[t].b}) ELSE free
       /\ BagCardinality(free') > BagCardinality(free) =>
            \E u \in Threads : th[u].pc = "put"
    ]_vars

WitnessReleasePools ==
  \E t \in Threads :
    /\ th[t].pc = "put"
    /\ th[t].size # 0
    /\ th[t].bCap > th[t].size
    /\ BagCardinality(free) > 0

RECURSIVE SumTo(_, _)
SumTo(f, i) == IF i < 0 THEN 0 ELSE f[i] + SumTo(f, i - 1)

\* C14: Release triggers calibration whenever the running total of histogram
\* increments since the last calibration, summed over all 20 buckets, exceeds
\* the threshold (42000), whatever the distribution of the releases across
\* buckets.  Before the first calibration the running total is the sum of the
\* counters.
TotalTriggers ==
  [][\A t \in Threads :
       /\ th[t].pc = "add" /\ th'[t].pc # "add"
       /\ gh.passes = 0
       /\ SumTo(pool'.calls, steps - 1) > calibrateCallsThreshold
       => th'[t].pc = "cas"
    ]_vars

\* C14 (amended): Release triggers calibration exactly when the counter of the
\* one bucket it has just incremented exceeds the threshold (42000).
BucketTriggers ==
  [][\A t \in Threads :
       th[t].pc = "add" /\ th'[t].pc # "add" =>
         LET idx == index(th[t].bCap)
         IN  /\ pool'.calls = [pool.calls EXCEPT ![idx] = @ + 1]
             /\ th'[t].pc = IF pool.calls[idx] + 1 > calibrateCallsThreshold
                            THEN "cas" ELSE "load"
    ]_vars

\* one release has brought a counter to the threshold without a calibration,
\* the next brings it above and is about to calibrate
WitnessBucketTriggers ==
  \E t \in Threads :
    /\ th[t].pc = "cas"
    /\ pool.calls[th[t].idx] = calibrateCallsThreshold + 1
    /\ gh.released[th[t].idx] = calibrateCallsThreshold + 1
    /\ gh.releases = 2
    /\ gh.passes = 0

\* the threads inside a calibration pass: past the compare-and-swap, before
\* the store that clears the latch
InPass == {t \in Threads : th[t].pc \in {"swap", "sort", "storeMax", "unlatch"}}

\* C15: calibration is single-flight under any interleaving of Release calls:
\* at most one thread is inside the pass, and the latch is set while it is; a
\* thread that triggers calibration while the latch is set goes on with its
\* Release at once, leaving histogram, defaultHint and maxPoolableSize as they
\* are; every pass clears the latch when it ends.
SingleFlight ==
  /\ [](/\ Cardinality(InPass) <= 1
        /\ InPass # {} => pool.calibrating = 1)
  /\ [][\A t \in Threads :
          /\ th[t].pc = "cas" /\ th'[t].pc # "cas" =>
               IF pool.calibrating # 0
               THEN th'[t].pc = "load" /\ pool' = pool
               ELSE th'[t].pc = "swap" /\ pool'.calibrating = 1
          /\ t \in InPass /\ th'[t].pc \notin {"swap", "sort", "storeMax", "unlatch"} =>
               th'[t].pc = "load" /\ pool'.calibrating = 0
          /\ th'[t] # th[t] /\ t \notin InPass /\ th[t].pc # "cas" =>
               /\ th'[t].pc \notin {"swap", "sort", "storeMax", "unlatch"}
               /\ pool'.defaultHint = pool.defaultHint
               /\ pool'.maxSize = pool.maxSize
               /\ pool'.calibrating = pool.calibrating
      ]_vars

\* one thread is inside the pass while the other has lost the race and gone on
WitnessSingleFlight ==
  \E t, u \in Threads :
    /\ t \in InPass
    /\ u \notin InPass
    /\ th[u].skipped
    /\ th[u].pc \in {"load", "put"}

\* C16: no release is lost from the statistics under concurrent Release and
\* calibrate: at every point and for every bucket, the releases counted into
\* the bucket equal the counts drained from it by all calibration passes so far
\* plus its current counter.
NoLostRelease ==
  \A i \in Buckets : gh.released[i] = gh.drained[i] + pool.calls[i]

\* a release has been counted into a bucket a running pass has already drained
WitnessNoLostRelease ==
  \E t \in Threads, i \in Buckets :
    /\ th[t].pc = "swap"
    /\ th[t].i > i
    /\ gh.drained[i] > 0
    /\ pool.calls[i] > 0

RECURSIVE SumCalls(_, _)
SumCalls(a, P) ==
  IF P = {} THEN 0
  ELSE LET j == CHOOSE x \in P : TRUE IN a[j].calls + SumCalls(a, P \ {j})

\* P, with d first, is a prefix of the entries of a in some descending order
\* of calls, and the shortest one whose calls sum to more than maxSum
ShortestPrefix(a, P, d, maxSum) ==
  /\ d \in P
  /\ \A x \in P, y \in DOMAIN a \ P : a[x].calls >= a[y].calls
  /\ SumCalls(a, P) > maxSum
  /\ \E e \in P : /\ \A x \in P : a[e].calls <= a[x].calls
                   /\ (e # d \/ P = {d})
                   /\ SumCalls(a, P) - a[e].calls <= maxSum

\* the pass of thread t has stored defaultHint and maxSize: they are the size
\* of d and the largest size in P, entries of the drained counts a
StoredFrom(t, d, P) ==
  LET a == th[t].a
  IN  /\ \A x \in DOMAIN a : a[d].calls >= a[x].calls
      /\ pool.defaultHint = 64 * 2 ^ (d - 1)
      /\ pool.maxSize = MaxOf({64 * 2 ^ (x - 1) : x \in P})
      /\ pool.maxSize >= pool.defaultHint

\* C17: a calibration pass with drained counts k[0..19] (bucket i has size
\* 64 * 2^i) sets defaultHint to the size of a bucket with the maximum drained
\* count, and maxPoolableSize to the largest bucket size among the shortest
\* prefix of the buckets in descending-count order whose cumulative count
\* exceeds floor(0.95 * total); hence maxPoolableSize >= defaultHint.  Such a
\* prefix holds only buckets with a count above 0.
PrefixStored ==
  \A t \in Threads :
    th[t].pc = "unlatch" =>
      LET a == th[t].a
          total == SumCalls(a, DOMAIN a)
          NZ == {x \in DOMAIN a : a[x].calls > 0}
      IN  /\ DOMAIN a = 1..20
          /\ \E d \in DOMAIN a : \E P \in SUBSET NZ :
               /\ ShortestPrefix(a, P, d, (total * 95) \div 100)
               /\ StoredFrom(t, d, P)

\* C17 (amended): as C17 when the pass drained any count; a pass that drained
\* nothing (total = 0, so that no prefix exceeds floor(0.95 * total)) sets
\* defaultHint to the size of some bucket and maxPoolableSize to the largest
\* bucket size of all, 64 * 2^19.
PrefixOrAllStored ==
  \A t \in Threads :
    th[t].pc = "unlatch" =>
      LET a == th[t].a
          total == SumCalls(a, DOMAIN a)
          NZ == {x \in DOMAIN a : a[x].calls > 0}
      IN  /\ DOMAIN a = 1..20
          /\ \A x \in DOMAIN a : a[x].size = 64 * 2 ^ (x - 1)
          /\ IF total > 0
             THEN \E d \in DOMAIN a : \E P \in SUBSET NZ :
                    /\ ShortestPrefix(a, P, d, (total * 95) \div 100)
                    /\ StoredFrom(t, d, P)
             ELSE \E d \in DOMAIN a : StoredFrom(t, d, DOMAIN a)

\* a pass has drained two buckets and needed both to pass 95% of the total
WitnessPrefixOrAllStored ==
  \E t \in Threads :
    /\ th[t].pc = "unlatch"
    /\ th[t].callsSum > calibrateCallsThreshold
    /\ pool.maxSize > pool.defaultHint

PoolUsesHint ==
  \A t \in Threads :
    /\ th[t].pc = "held"
    /\ gh.passes = 0
    /\ 64 <= gh.hint /\ gh.hint <= 2 ^ 25
    => CapacityHint(th[t].b) = gh.hint

\* empty and without an outstanding borrow
Clean(b) == buffer_Len(b) = 0 /\ ~Borrowing(b)

\* C20: every buffer on a pool's free list has Len() = 0 and no outstanding
\* borrow, and so has every buffer Acquire returns, popped from the free list
\* or newly built, under any interleaving of Acquire and Release by threads
\* that do not use a buffer after releasing it.
AcquireClean ==
  /\ [](\A v \in BagToSet(free) : Clean(v))
  /\ [][\A t \in Threads :
          th[t].pc \in {"idle", "new"} /\ th'[t].pc = "held" => Clean(th'[t].b)
      ]_vars

\* a buffer that was written and released is on the free list while a thread
\* holds a buffer with an outstanding borrow
WitnessAcquireClean ==
  /\ \E v \in BagToSet(free) : Capacity(v) > 0
  /\ \E t \in Threads : th[t].pc = "held" /\ Borrowing(th[t].b)
  /\ gh.releases > 1


\* x is the least multiple of h that is not below d
LeastMultiple(x, d, h) == x % h = 0 /\ x >= d /\ x - h < d

\* the capacities of a buffer of hint minHint after: write 8, write 64 more,
\* drain, write 192
GrowExample ==
  LET b1 == Write(NewBuffer, Zeros(8)).s
      b2 == Write(b1, Zeros(minHint)).s
      b3 == Discard(b2, buffer_Len(b2)).s
      b4 == Write(b3, Zeros(3 * minHint)).s
  IN  <<Capacity(b1), Capacity(b2), Capacity(b3), Capacity(b4)>>

\* C21: when a write-side operation needs n more bytes and the buffer must
\* reallocate (capacity c, unread length L, n > c - L), the new capacity is
\* exactly c + ceil((n - (c - L)) / h) * h for growth hint h; the capacity is
\* always 0 or a positive multiple of h, and it never decreases (with h = 64:
\* write 8 -> 64, write 64 more -> 128, drain, write 192 -> 192).
GrowRounds ==
  /\ [](/\ \A p \in Slices :
             LET res == Write(buf, p)
                 d   == Len(p) - (Capacity(buf) - buffer_Len(buf))
             IN  ~Borrowing(buf) /\ d > 0
                 => /\ Fine(res)
                    /\ LeastMultiple(Capacity(res.s) - Capacity(buf), d, CapacityHint(buf))
        /\ \A n \in Sizes :
             LET res == Borrow(buf, n)
                 d   == n - (Capacity(buf) - buffer_Len(buf))
             IN  ~Borrowing(buf) /\ n > 0 /\ d > 0
                 => /\ Fine(res)
                    /\ LeastMultiple(Capacity(res.s) - Capacity(buf), d, CapacityHint(buf))
        /\ \/ Capacity(buf) = 0
           \/ Capacity(buf) > 0 /\ Capacity(buf) % CapacityHint(buf) = 0)
  /\ [][Capacity(buf') >= Capacity(buf)]_vars
  /\ [](GrowExample = <<minHint, 2 * minHint, 2 * minHint, 3 * minHint>>)

\* a buffer with unread bytes and a consumed prefix has been reallocated by
\* more than one multiple of its hint
WitnessGrowRounds ==
  /\ buffer_Len(buf) > 0 /\ buf.r > 0
  /\ Capacity(buf) > CapacityHint(buf)
  /\ \E p \in Slices : Write(buf, p).path = "alloc"


\* the request for n bytes does not fit after the write cursor, but fits once
\* the consumed bytes are reclaimed
NeedsCompaction(s, n) ==
  /\ ~Borrowing(s)
  /\ Capacity(s) - s.w < n
  /\ Capacity(s) - buffer_Len(s) >= n

\* the call succeeded on the store it found: same capacity, same store size,
\* unread bytes at offset 0
Compacted(res) ==
  /\ Fine(res)
  /\ Capacity(res.s) = Capacity(buf)
  /\ Len(res.s.b) = Len(buf.b)
  /\ res.s.r = 0

\* C22: compaction is tried before reallocation: when a write-side operation
\* (Write, WriteByte, Set, Borrow, ReadFrom*) needs n bytes and the free space
\* after the write cursor is too small (c - w < n) but the capacity minus the
\* unread length suffices (c - (w - r) >= n), the operation succeeds with the
\* capacity unchanged, the unread bytes moved to offset 0 (r = 0, w = old
\* length, a = w), and at least n free bytes after w.
CompactsFirst ==
  \A n \in 1..MaxCap :
    NeedsCompaction(buf, n) =>
      /\ LET g == grow(buf, n)
         IN  /\ Compacted(g)
             /\ g.s.w = buffer_Len(buf) /\ g.s.a = g.s.w
             /\ Unread(g.s) = Unread(buf)
             /\ Capacity(g.s) - g.s.w >= n
      /\ \A p \in Slices :
           Len(p) = n =>
             /\ LET res == Write(buf, p)
                IN  Compacted(res) /\ res.n = n /\ Unread(res.s) = Unread(buf) \o p
             /\ LET res == Set(buf, p)
                IN  Compacted(res) /\ Unread(res.s) = p
      /\ \A c \in Byte :
           n = 1 =>
             LET res == WriteByte(buf, c)
             IN  Compacted(res) /\ Unread(res.s) = Append(Unread(buf), c)
      /\ LET res == Borrow(buf, n)
         IN  /\ Compacted(res)
             /\ res.s.w = buffer_Len(buf) /\ res.s.a = res.s.w + n
             /\ Unread(res.s) = Unread(buf)
      /\ \A rd \in Readers :
           /\ LET res == ReadFromLimited(buf, rd, n)
              IN  /\ ~rd.fail => Compacted(res)
                  /\ ~res.panic /\ Capacity(res.s) = Capacity(buf) /\ res.s.r = 0
                  /\ Unread(res.s) = Unread(buf) \o SubSeq(rd.data, 1, Min(n, Len(rd.data)))
           /\ Len(rd.data) + 1 = n /\ ~rd.fail =>
                LET res == ReadFrom(buf, rd)
                IN  Compacted(res) /\ Unread(res.s) = Unread(buf) \o rd.data

\* unread bytes behind a consumed prefix, and a request that only fits once
\* the prefix is reclaimed: grow shifts
WitnessCompactsFirst ==
  /\ buffer_Len(buf) > 0
  /\ \E n \in 1..MaxCap : NeedsCompaction(buf, n) /\ grow(buf, n).path = "shift"
  /\ \E p \in Slices : NeedsCompaction(buf, Len(p)) /\ Write(buf, p).path = "shift"


\* capacity c plus the deficit d rounded up to a multiple of h is above maxInt
ExceedsMaxInt(c, d, h) == (d - 1) \div h + 1 > (maxInt - c) \div h

\* what Borrow(size) has to add to the store: size less the capacity not taken
\* by unread bytes
Deficit(s, size) == size - (Capacity(s) - buffer_Len(s))

\* a request whose rounded deficit does not fit below maxInt fails with
\* ErrTooLarge and changes neither capacity nor length
TooLargeRefused ==
  ~panicked /\ ~Borrowing(buf) =>
    \A size \in BigSizes :
      LET res == BorrowLen(buf, size)
          d   == Deficit(buf, size)
      IN  d > 0 /\ ExceedsMaxInt(Capacity(buf), d, CapacityHint(buf))
          => /\ ~res.panic /\ res.err = "ErrTooLarge"
             /\ Capacity(res.s) = Capacity(buf)
             /\ buffer_Len(res.s) = buffer_Len(buf)
             /\ ~Borrowing(res.s)

\* ErrTooLarge is returned to no other request
TooLargeOnlyThen ==
  ~panicked /\ ~Borrowing(buf) =>
    \A size \in BigSizes :
      LET res == BorrowLen(buf, size)
          d   == Deficit(buf, size)
      IN  res.err = "ErrTooLarge"
          => d > 0 /\ ExceedsMaxInt(Capacity(buf), d, CapacityHint(buf))

\* C23: with integers bounded by maxInt, a growth request never produces a
\* capacity above maxInt: whenever old capacity plus the rounded deficit would
\* exceed maxInt the call fails with ErrTooLarge and leaves the capacity, Len()
\* and the unread bytes unchanged; and growth is rejected with ErrTooLarge only
\* when old capacity plus the rounded deficit would exceed maxInt.
TooLargeExact ==
  /\ (~panicked => 0 <= Capacity(buf) /\ Capacity(buf) <= maxInt)
  /\ TooLargeRefused
  /\ TooLargeOnlyThen


\* the call moved the first res.n unread bytes, in order, into the sink and
\* left the others unread; nothing but the read cursor changed
Delivered(res) ==
  /\ ~res.panic
  /\ 0 <= res.n /\ res.n <= buffer_Len(buf)
  /\ res.p = SubSeq(Unread(buf), 1, res.n)
  /\ Unread(res.s) = SubSeq(Unread(buf), res.n + 1, buffer_Len(buf))
  /\ res.s = [buf EXCEPT !.r = buf.r + res.n]

\* what a sink that fails once it has taken room bytes makes of an offer of k
\* bytes: it fails iff the offer is not empty and reaches room
SinkFails(wr, k) == wr.room >= 0 /\ k > 0 /\ wr.room <= k

\* C24: WriteTo(sink), with a sink that accepts between 1 and all offered bytes
\* per call and never errors, ends with Len() = 0, returns the initial Len(),
\* and the sink has received exactly the unread bytes in order, each once; if
\* the sink returns an error, WriteTo stops at that call, returns that error,
\* and exactly the bytes the sink accepted are consumed while the rest remain
\* unread.  WriteToLimited(sink, n) delivers at most min(n, Len()) bytes under
\* the same rules.
WriteToDelivers ==
  \A wr \in Writers :
    /\ LET res == WriteTo(buf, wr)
           k   == buffer_Len(buf)
       IN  /\ Delivered(res)
           /\ ~SinkFails(wr, k) =>
                res.err = "nil" /\ res.n = k /\ buffer_Len(res.s) = 0 /\ res.p = Unread(buf)
           /\ SinkFails(wr, k) => res.err = "ErrWriter" /\ res.n = wr.room
    /\ \A n \in Sizes :
         LET res == WriteToLimited(buf, wr, n)
             k   == IF n < 0 THEN 0 ELSE Min(n, buffer_Len(buf))
         IN  /\ Delivered(res)
             /\ res.n <= k
             /\ ~SinkFails(wr, k) => res.err = "nil" /\ res.n = k
             /\ SinkFails(wr, k) => res.err = "ErrWriter" /\ res.n = wr.room

\* several unread bytes behind a consumed prefix: a sink that takes one byte a
\* call gets them all, and a sink that fails after one byte leaves the others
WitnessWriteToDelivers ==
  /\ buf.r > 0
  /\ buffer_Len(buf) > 2
  /\ \E wr \in Writers :
       wr.chunk = 1 /\ wr.room < 0 /\ WriteTo(buf, wr).n = buffer_Len(buf)
  /\ \E wr \in Writers :
       wr.room = 1 /\ WriteTo(buf, wr).err = "ErrWriter" /\ buffer_Len(WriteTo(buf, wr).s) > 1


\* C25: the histogram bucket chosen for a released buffer of capacity n is the
\* unique i in 0..19 with 64 * 2^(i-1) < n <= 64 * 2^i (bucket 0 for n <= 64,
\* bucket 19 for every n above 64 * 2^18), so that for i < 19 the bucket size
\* 64 * 2^i used by calibration is never smaller than the capacity of any
\* buffer counted in it.
BucketBrackets ==
  LET me == th["t1"]
      n  == me.bCap
      i  == me.idx
  IN  /\ me.pc = "add" =>
           /\ i \in 0..19
           /\ n <= 64 => i = 0
           /\ n > 64 * 2 ^ 18 => i = 19
           /\ i > 0 => 64 * 2 ^ (i - 1) < n
           /\ i < 19 => n <= 64 * 2 ^ i
           /\ \A j \in 0..19 :
                (j = 0 \/ 64 * 2 ^ (j - 1) < n) /\ (j = 19 \/ n <= 64 * 2 ^ j) => j = i
      /\ me.pc \in {"load", "put"} =>
           /\ pool.calls = [NoCalls EXCEPT ![i] = 1]
           /\ \A j \in 0..18 : pool.calls[j] > 0 => bucketSize(j) >= n

\* a capacity one above a bucket size has been counted in the next bucket, and
\* a capacity above every bucket size in the last one
WitnessBucketBrackets ==
  /\ th["t1"].pc = "idle"
  /\ \/ gh.released[7] = 1 /\ \E v \in BagToSet(free) : Capacity(v) = bucketSize(6) + 1
     \/ gh.released[19] = 1 /\ free = EmptyBag


\* C26: WriteString(s) is equivalent to Write applied to the bytes of s in
\* every buffer state: same returned count, same error (ErrWriteBeforeAllocated
\* while a borrow is outstanding), and same resulting cursors, capacity and
\* contents, for every s including the empty string.
WriteStringAsWrite ==
  \A str \in Slices :
    LET x == WriteString(buf, str)
        y == Write(buf, str)
    IN  /\ x.n = y.n
        /\ x.err = y.err
        /\ x.panic = y.panic
        /\ x.s = y.s


\* the results of every read-side call on s
ReadSide(s) ==
  {Peek(s, n) : n \in Sizes} \cup {CloneBytes(s), ReadByte(s)}
    \cup {buffer_Next(s, n) : n \in Sizes}
    \cup {Read(s, k) : k \in 0..(MaxLen + 1)}
    \cup {ReadBytes(s, d) : d \in Byte}
    \cup {Index(s, d) : d \in Byte}
    \cup {Discard(s, n) : n \in Sizes}
    \cup {WriteTo(s, wr) : wr \in Writers}
    \cup {WriteToLimited(s, wr, n) : wr \in Writers, n \in Sizes}

\* C27: while a borrow is outstanding, no read-side operation (Peek, Next,
\* Read, ReadByte, ReadBytes, Index, Discard, CloneBytes, WriteTo,
\* WriteToLimited) changes the write cursor, the allocation cursor, the
\* capacity or the backing store, even when it drains the buffer completely (no
\* cursor collapse happens); so the borrowed view stays valid and a later
\* Return(k) commits the bytes at the position the view was handed out.
BorrowSurvivesReads ==
  Borrowing(buf) =>
    \A res \in ReadSide(buf) :
      /\ ~res.panic
      /\ res.s.w = buf.w /\ res.s.a = buf.a
      /\ Capacity(res.s) = Capacity(buf)
      /\ res.s.b = buf.b
      /\ buf.r <= res.s.r /\ res.s.r <= buf.w
      /\ Borrowing(res.s)
      /\ \A k \in 1..(buf.a - buf.w) :
           LET ret == Return(res.s, k).s
           IN  /\ ret.w = buf.w + k /\ ret.a = ret.w
               /\ Unread(ret) = Unread(res.s) \o Slice(buf.b, buf.w, buf.w + k)

\* with a borrow outstanding and unread bytes behind a consumed prefix, a
\* read-side call drains the buffer
WitnessBorrowSurvivesReads ==
  /\ Borrowing(buf)
  /\ buf.r > 0
  /\ buffer_Len(buf) > 0
  /\ \E n \in Sizes : buffer_Len(Discard(buf, n).s) = 0
  /\ \E n \in Sizes : buffer_Len(buffer_Next(buf, n).s) = 0


\* the pool was built with defaultHint <= maxSize
BuiltInOrder ==
  Pool(gh.hint, pool.dynamicHint).defaultHint <= Pool(gh.hint, pool.dynamicHint).maxSize

\* C28: for a pool whose initial defaultHint does not exceed its initial
\* maxPoolableSize, in every reachable state in which the calibrating latch is
\* clear, defaultHint <= maxPoolableSize, under any interleaving of concurrent
\* Acquire, Release and calibrate; so a buffer whose capacity equals
\* defaultHint is never refused by Release while no calibration is running:
\* the size Release loads then passes its test.
HintBelowMax ==
  /\ [](BuiltInOrder /\ pool.calibrating = 0 => pool.defaultHint <= pool.maxSize)
  /\ [][\A t \in Threads :
          /\ BuiltInOrder
          /\ pool.calibrating = 0
          /\ th[t].pc = "load" /\ th'[t].pc = "put"
          /\ th[t].bCap = pool.defaultHint
          => releasePuts(th'[t].size, th'[t].bCap)
      ]_vars

\* a calibration has raised defaultHint and lowered maxSize to the same bucket
\* size, and a thread is releasing a buffer of that capacity
WitnessHintBelowMax ==
  /\ pool.calibrating = 0
  /\ gh.passes > 0
  /\ pool.defaultHint = bucketSize(1) /\ pool.maxSize = bucketSize(1)
  /\ \E t \in Threads : th[t].pc = "put" /\ th[t].bCap = pool.defaultHint

=============================================================================
